---- MODULE Spec2Model ----
(***************************************************************************)
(* simplegmail: the search-query constructor (simplegmail/query.py).       *)
(*                                                                         *)
(* construct_query is a pure function of its positional dictionaries and   *)
(* its keyword arguments.  Python values are tagged records, Python        *)
(* strings are TLA+ strings, a call either returns a value or raises a     *)
(* built-in exception (KeyError, TypeError, IndexError), and the first     *)
(* exception raised ends the call.                                         *)
(***************************************************************************)
EXTENDS Integers, Sequences, FiniteSets, TLC

VARIABLES
    query_dicts,   \* *query_dicts: a sequence of dictionaries
    query_terms,   \* **query_terms: a dictionary, as its items in insertion order
    pc,            \* "call": before construct_query runs, "done": after;
                   \* "combine" / "combined": before and after a combinator call
    result,        \* what the call returned or raised
    expr,          \* the nested combinator calls being evaluated
    module_globals,  \* the names globals() holds that begin with an underscore
    calls,         \* calls of construct_query running in threads, one record each
    mailbox,       \* the server's messages: the payload behind each reference
    failing,       \* the references whose messages().get() fails with HttpError
    message_refs,  \* _get_messages_from_refs: the references to fetch
    attachments,   \* _get_messages_from_refs: the attachments mode it was given
    message_lists, \* _get_messages_from_refs: one slot per thread, None or a list
    threads,       \* the worker threads: "created", "running", "finished" or "died"
    fetched,       \* how many times message_refs[i] was asked of the server, for each i
    main,          \* where the calling thread stands
    outcome,       \* what the call returned or raised to the caller
    caller_labels, \* the list object the caller passes as labels=
    request,       \* the call the caller made: method, attachments mode, labels
    sent,          \* labelIds of the messages().list() request of that call
    ncalls         \* calls made so far by the caller

queryVars == <<query_dicts, query_terms, pc, result, expr, module_globals, calls>>

fetchVars == <<message_refs, attachments, message_lists, threads, fetched, main, outcome>>

gmailVars == <<mailbox, failing, message_refs, attachments, message_lists, threads,
               fetched, main, outcome, caller_labels, request, sent, ncalls>>

vars == <<query_dicts, query_terms, pc, result, expr, module_globals, calls,
          mailbox, failing, message_refs, attachments, message_lists, threads,
          fetched, main, outcome, caller_labels, request, sent, ncalls>>

\* no value yet: nothing returned, nothing raised
NoOutcome == [kind |-> "none", err |-> "", messages |-> <<>>]

\* labels=None, and a list given as labels=
NoLabels == [none |-> TRUE, items |-> <<>>]
LabelList(ids) == [none |-> FALSE, items |-> ids]

NoRequest == [method |-> "", attachments |-> "", labels |-> NoLabels]

\* no Gmail object in use
GmailIdle ==
    /\ mailbox = <<>>
    /\ failing = {}
    /\ message_refs = <<>>
    /\ attachments = ""
    /\ message_lists = <<>>
    /\ threads = <<>>
    /\ fetched = <<>>
    /\ main = "idle"
    /\ outcome = NoOutcome
    /\ caller_labels = NoLabels
    /\ request = NoRequest
    /\ sent = <<>>
    /\ ncalls = 0

----------------------------------------------------------------------------
(* Bounds of the explored inputs.                                          *)

MaxLen == 2      \* longest list/tuple of strings given as a criterion value
MaxOuter == 2    \* longest list/tuple of sequences (labels, argument tuples)
MaxTerms == 3    \* most criteria in one keyword call
MaxDicts == 2    \* most positional dictionaries in one call
MaxDictItems == 2  \* most criteria in one positional dictionary
MaxGroup == 2    \* most terms a combinator call is given, over plain terms
MaxNest == 2     \* most terms a combinator call is given, over nested calls
NumThreads == 2  \* threads calling construct_query at the same time
MaxCalls == 2    \* most calls the caller makes on one Gmail object
MaxRefs == 21    \* most references fetched, besides the counts that reach the thread cap
MaxThreadTerms == 2  \* most criteria in the keyword call of one thread

----------------------------------------------------------------------------
(* Python values.                                                          *)

PyStr(x) == [t |-> "str", s |-> x, n |-> 0, items |-> <<>>]
PyInt(x) == [t |-> "int", s |-> "", n |-> x, items |-> <<>>]
PyBool(x) == [t |-> "bool", s |-> "", n |-> IF x THEN 1 ELSE 0, items |-> <<>>]
PyTuple(xs) == [t |-> "tuple", s |-> "", n |-> 0, items |-> xs]
PyList(xs) == [t |-> "list", s |-> "", n |-> 0, items |-> xs]

\* isinstance(v, (tuple, list))
IsTupleOrList(v) == v.t \in {"tuple", "list"}

\* What a call produces: a returned value, or a raised exception with its argument.
Return(v) == [ok |-> TRUE, err |-> "", val |-> v]
Raise(e, msg) == [ok |-> FALSE, err |-> e, val |-> PyStr(msg)]

RECURSIVE Join(_, _)
\* sep.join(strs) for a sequence of TLA+ strings
Join(sep, strs) ==
    IF Len(strs) = 0 THEN ""
    ELSE IF Len(strs) = 1 THEN strs[1]
    ELSE strs[1] \o sep \o Join(sep, Tail(strs))

RECURSIVE IntToStr(_)
\* str(n) for an int n >= 0
IntToStr(n) ==
    IF n < 10 THEN SubSeq("0123456789", n + 1, n + 1)
    ELSE IntToStr(n \div 10) \o SubSeq("0123456789", (n % 10) + 1, (n % 10) + 1)

RECURSIVE Repr(_)
\* repr(v), for strings without quotes or escapes
Repr(v) ==
    CASE v.t = "str" -> "'" \o v.s \o "'"
      [] v.t = "int" -> IntToStr(v.n)
      [] v.t = "bool" -> IF v.n = 1 THEN "True" ELSE "False"
      [] v.t = "list" ->
            "[" \o Join(", ", [i \in 1..Len(v.items) |-> Repr(v.items[i])]) \o "]"
      [] v.t = "tuple" ->
            IF Len(v.items) = 1 THEN "(" \o Repr(v.items[1]) \o ",)"
            ELSE "(" \o Join(", ", [i \in 1..Len(v.items) |-> Repr(v.items[i])]) \o ")"

\* f'{v}': str(v)
Format(v) == IF v.t = "str" THEN v.s ELSE Repr(v)

\* iter(v) succeeds for strings, tuples and lists
Iterable(v) == v.t \in {"str", "tuple", "list"}

\* the elements iteration (or * unpacking) yields: a string yields its characters
Elements(v) ==
    IF v.t = "str" THEN [i \in 1..Len(v.s) |-> PyStr(SubSeq(v.s, i, i))]
    ELSE v.items

\* v[0]
GetItem0(v) ==
    IF ~Iterable(v) THEN Raise("TypeError", "object is not subscriptable")
    ELSE IF Len(Elements(v)) = 0 THEN Raise("IndexError", "index out of range")
    ELSE Return(Elements(v)[1])

\* bool(v)
Truthy(v) ==
    CASE v.t = "str" -> v.s # ""
      [] v.t \in {"int", "bool"} -> v.n # 0
      [] OTHER -> v.items # <<>>

\* A list comprehension [f(x) for x in xs], given the outcomes rs of f in order:
\* the first exception propagates, otherwise the list of returned values.
Comprehension(rs) ==
    IF \E i \in 1..Len(rs) : ~rs[i].ok
    THEN rs[CHOOSE i \in 1..Len(rs) : ~rs[i].ok /\ \A j \in 1..(i - 1) : rs[j].ok]
    ELSE Return(PyList([i \in 1..Len(rs) |-> rs[i].val]))

----------------------------------------------------------------------------
(* The combinators.                                                        *)

\* ' '.join(queries): every element must be a str
SpaceJoin(queries) ==
    IF \E i \in 1..Len(Elements(queries)) : Elements(queries)[i].t # "str"
    THEN Raise("TypeError", "sequence item: expected str instance")
    ELSE Return(PyStr(Join(" ", [i \in 1..Len(Elements(queries)) |-> Elements(queries)[i].s])))

\* the delimiters of _or used for _and
_and_Braces(queries) ==
    IF ~Iterable(queries) THEN Raise("TypeError", "object has no len()")
    ELSE IF Len(Elements(queries)) = 1 THEN Return(GetItem0(queries).val)
    ELSE IF ~SpaceJoin(queries).ok THEN SpaceJoin(queries)
    ELSE Return(PyStr("{" \o SpaceJoin(queries).val.s \o "}"))

\* the unwrapping of a single term forgotten
_and_AlwaysWraps(queries) ==
    IF ~Iterable(queries) THEN Raise("TypeError", "object has no len()")
    ELSE IF ~SpaceJoin(queries).ok THEN SpaceJoin(queries)
    ELSE Return(PyStr("(" \o SpaceJoin(queries).val.s \o ")"))

_and(queries) ==
    IF ~Iterable(queries) THEN Raise("TypeError", "object has no len()")
    ELSE IF Len(Elements(queries)) = 1 THEN Return(Elements(queries)[1])
    ELSE IF ~SpaceJoin(queries).ok THEN SpaceJoin(queries)
    ELSE Return(PyStr("(" \o SpaceJoin(queries).val.s \o ")"))

\* the unwrapping of a single term forgotten
_or_AlwaysWraps(queries) ==
    IF ~Iterable(queries) THEN Raise("TypeError", "object has no len()")
    ELSE IF ~SpaceJoin(queries).ok THEN SpaceJoin(queries)
    ELSE Return(PyStr("{" \o SpaceJoin(queries).val.s \o "}"))

_or(queries) ==
    IF ~Iterable(queries) THEN Raise("TypeError", "object has no len()")
    ELSE IF Len(Elements(queries)) = 1 THEN Return(Elements(queries)[1])
    ELSE IF ~SpaceJoin(queries).ok THEN SpaceJoin(queries)
    ELSE Return(PyStr("{" \o SpaceJoin(queries).val.s \o "}"))

\* a space left between the minus sign and the term
_exclude_Spaced(term) == Return(PyStr("- " \o Format(term)))

_exclude(term) == Return(PyStr("-" \o Format(term)))

----------------------------------------------------------------------------
(* The rendering functions, one per criterion.                             *)

_sender(sender) == Return(PyStr("from:" \o Format(sender)))

_recipient(recipient) == Return(PyStr("to:" \o Format(recipient)))

_subject(subject) == Return(PyStr("subject:" \o Format(subject)))

_spec_attachment(name_or_type) == Return(PyStr("filename:" \o Format(name_or_type)))

_cc(recipient) == Return(PyStr("cc:" \o Format(recipient)))

_bcc(recipient) == Return(PyStr("bcc:" \o Format(recipient)))

_after(date) == Return(PyStr("after:" \o Format(date)))

_before(date) == Return(PyStr("before:" \o Format(date)))

_list(list_name) == Return(PyStr("list:" \o Format(list_name)))

_in(folder_name) == Return(PyStr("in:" \o Format(folder_name)))

\* the criterion's own name used for the keyword
_delivered_to_Underscored(address) == Return(PyStr("delivered_to:" \o Format(address)))

_delivered_to(address) == Return(PyStr("deliveredto:" \o Format(address)))

_category(category) == Return(PyStr("category:" \o Format(category)))

_larger(size) == Return(PyStr("larger:" \o Format(size)))

_smaller(size) == Return(PyStr("smaller:" \o Format(size)))

_id(message_id) == Return(PyStr("rfc822msgid:" \o Format(message_id)))

_has(attribute) == Return(PyStr("has:" \o Format(attribute)))

_exact_phrase(phrase) == Return(PyStr("\"" \o Format(phrase) \o "\""))

_starred == Return(PyStr("is:starred"))

_snoozed == Return(PyStr("is:snoozed"))

_unread == Return(PyStr("is:unread"))

_read == Return(PyStr("is:read"))

_important == Return(PyStr("is:important"))

_attachment == Return(PyStr("has:attachment"))

_drive == Return(PyStr("has:drive"))

_docs == Return(PyStr("has:document"))

_sheets == Return(PyStr("has:spreadsheet"))

_slides == Return(PyStr("has:presentation"))

_label(label) == Return(PyStr("label:" \o Format(label)))

\* the labels of one group OR-combined
_labels_Or(labels) ==
    IF labels.t = "str" THEN _label(labels)
    ELSE IF ~Iterable(labels) THEN Raise("TypeError", "object is not iterable")
    ELSE _or(PyList([i \in 1..Len(labels.items) |-> _label(labels.items[i]).val]))

_labels(labels) ==
    IF labels.t = "str" THEN _label(labels)
    ELSE IF ~Iterable(labels) THEN Raise("TypeError", "object is not iterable")
    ELSE _and(PyList([i \in 1..Len(labels.items) |-> _label(labels.items[i]).val]))

_older_than(number, unit) ==
    IF ~GetItem0(unit).ok THEN GetItem0(unit)
    ELSE Return(PyStr("older_than:" \o Format(number) \o Format(GetItem0(unit).val)))

\* the whole unit printed instead of its first character
_newer_than_WholeUnit(number, unit) ==
    IF ~GetItem0(unit).ok THEN GetItem0(unit)
    ELSE Return(PyStr("newer_than:" \o Format(number) \o Format(unit)))

_newer_than(number, unit) ==
    IF ~GetItem0(unit).ok THEN GetItem0(unit)
    ELSE Return(PyStr("newer_than:" \o Format(number) \o Format(GetItem0(unit).val)))

\* the two words in the wrong order
_near_words_Swapped(args) ==
    LET query == Format(args[2]) \o " AROUND " \o Format(args[3]) \o " " \o Format(args[1])
    IN  IF Len(args) = 4 /\ Truthy(args[4])
        THEN Return(PyStr("\"" \o query \o "\""))
        ELSE Return(PyStr(query))

\* args: first, second, distance and, when given, exact (default False)
_near_words(args) ==
    LET query == Format(args[1]) \o " AROUND " \o Format(args[3]) \o " " \o Format(args[2])
    IN  IF Len(args) = 4 /\ Truthy(args[4])
        THEN Return(PyStr("\"" \o query \o "\""))
        ELSE Return(PyStr(query))

----------------------------------------------------------------------------
(* The module's global names that begin with an underscore: what           *)
(* globals()[f"_{key}"] can find.                                          *)

FlagFunctions ==
    {"_starred", "_snoozed", "_unread", "_read", "_important",
     "_attachment", "_drive", "_docs", "_sheets", "_slides"}

OneArgFunctions ==
    {"_sender", "_recipient", "_subject", "_labels", "_label", "_spec_attachment",
     "_exact_phrase", "_cc", "_bcc", "_after", "_before", "_list", "_in",
     "_delivered_to", "_category", "_larger", "_smaller", "_id", "_has",
     "_and", "_or", "_exclude"}

\* module attributes every Python module has: found by the lookup, not callable
ModuleAttributes == {"__name__", "__doc__", "__file__", "__builtins__"}

GlobalNames ==
    FlagFunctions \cup OneArgFunctions \cup ModuleAttributes
        \cup {"_older_than", "_newer_than", "_near_words"}

\* the numbers of positional arguments the function accepts
Arity(fn) ==
    CASE fn \in FlagFunctions -> {0}
      [] fn \in OneArgFunctions -> {1}
      [] fn \in {"_older_than", "_newer_than"} -> {2}
      [] fn = "_near_words" -> {3, 4}

\* the body of the function named fn, run on arguments that fit its parameters
Invoke(fn, args) ==
         CASE fn = "_sender" -> _sender(args[1])
           [] fn = "_recipient" -> _recipient(args[1])
           [] fn = "_subject" -> _subject(args[1])
           [] fn = "_labels" -> _labels(args[1])
           [] fn = "_label" -> _label(args[1])
           [] fn = "_spec_attachment" -> _spec_attachment(args[1])
           [] fn = "_exact_phrase" -> _exact_phrase(args[1])
           [] fn = "_cc" -> _cc(args[1])
           [] fn = "_bcc" -> _bcc(args[1])
           [] fn = "_after" -> _after(args[1])
           [] fn = "_before" -> _before(args[1])
           [] fn = "_list" -> _list(args[1])
           [] fn = "_in" -> _in(args[1])
           [] fn = "_delivered_to" -> _delivered_to(args[1])
           [] fn = "_category" -> _category(args[1])
           [] fn = "_larger" -> _larger(args[1])
           [] fn = "_smaller" -> _smaller(args[1])
           [] fn = "_id" -> _id(args[1])
           [] fn = "_has" -> _has(args[1])
           [] fn = "_and" -> _and(args[1])
           [] fn = "_or" -> _or(args[1])
           [] fn = "_exclude" -> _exclude(args[1])
           [] fn = "_older_than" -> _older_than(args[1], args[2])
           [] fn = "_newer_than" -> _newer_than(args[1], args[2])
           [] fn = "_near_words" -> _near_words(args)
           [] fn = "_starred" -> _starred
           [] fn = "_snoozed" -> _snoozed
           [] fn = "_unread" -> _unread
           [] fn = "_read" -> _read
           [] fn = "_important" -> _important
           [] fn = "_attachment" -> _attachment
           [] fn = "_drive" -> _drive
           [] fn = "_docs" -> _docs
           [] fn = "_sheets" -> _sheets
           [] fn = "_slides" -> _slides

\* a call that binds every argument it is given and fills a missing one with ''
Apply_Lenient(fn, args) ==
    IF fn \in ModuleAttributes THEN Raise("TypeError", "object is not callable")
    ELSE Invoke(fn, [i \in 1..(CHOOSE n \in Arity(fn) : \A m \in Arity(fn) : n <= m) |->
                        IF i <= Len(args) THEN args[i] ELSE PyStr("")])

\* query_fn(*args) for the global named fn: Python binds the arguments to the
\* parameters before the body runs
Apply(fn, args) ==
    IF fn \in ModuleAttributes THEN Raise("TypeError", "object is not callable")
    ELSE IF Len(args) \notin Arity(fn) THEN Raise("TypeError", "wrong number of arguments")
    ELSE Invoke(fn, args)

\* query_fn(*v): v is unpacked into the positional arguments
ApplyStar(fn, v) ==
    IF ~Iterable(v) THEN Raise("TypeError", "argument after * must be an iterable")
    ELSE Apply(fn, Elements(v))

----------------------------------------------------------------------------
(* construct_query.                                                        *)

\* key.startswith('exclude')
IsExcluded(key) == Len(key) >= Len("exclude") /\ SubSeq(key, 1, Len("exclude")) = "exclude"

\* key[len('exclude_'):]
StripExclude(key) == SubSeq(key, Len("exclude_") + 1, Len(key))

\* the two conjunctions the wrong way round
Conjunction_Swapped(val, terms) == IF val.t = "tuple" THEN _or(terms) ELSE _and(terms)

\* the terms of a sequence value wrapped even when there is only one
Conjunction_AlwaysWraps(val, terms) ==
    IF val.t = "tuple" THEN _and_AlwaysWraps(terms) ELSE _or_AlwaysWraps(terms)

\* conjunction = _and if isinstance(val, tuple) else _or, applied to the terms
Conjunction(val, terms) == IF val.t = "tuple" THEN _and(terms) ELSE _or(terms)

\* every tuple or list value taken for a sequence of argument tuples
MultiArgTerm_ByValueType(fn, val) ==
    IF ~GetItem0(val).ok THEN GetItem0(val)
    ELSE IF IsTupleOrList(val)
    THEN LET rs == Comprehension([i \in 1..Len(val.items) |-> ApplyStar(fn, val.items[i])])
         IN  IF rs.ok THEN Conjunction(val, rs.val) ELSE rs
    ELSE ApplyStar(fn, val)

\* the branch taken for newer_than, older_than and near_words
MultiArgTerm(fn, val) ==
    IF ~GetItem0(val).ok THEN GetItem0(val)
    ELSE IF IsTupleOrList(GetItem0(val).val)
    THEN LET rs == Comprehension([i \in 1..Len(val.items) |-> ApplyStar(fn, val.items[i])])
         IN  IF rs.ok THEN Conjunction(val, rs.val) ELSE rs
    ELSE ApplyStar(fn, val)

\* label groups OR-combined whatever the type of the outer sequence
LabelsTerm_AlwaysOr(fn, val) ==
    IF ~GetItem0(val).ok THEN GetItem0(val)
    ELSE IF IsTupleOrList(GetItem0(val).val)
    THEN LET rs == Comprehension([i \in 1..Len(val.items) |-> Apply(fn, <<val.items[i]>>)])
         IN  IF rs.ok THEN _or(rs.val) ELSE rs
    ELSE Apply(fn, <<val>>)

\* the branch taken for labels
LabelsTerm(fn, val) ==
    IF ~GetItem0(val).ok THEN GetItem0(val)
    ELSE IF IsTupleOrList(GetItem0(val).val)
    THEN LET rs == Comprehension([i \in 1..Len(val.items) |-> Apply(fn, <<val.items[i]>>)])
         IN  IF rs.ok THEN Conjunction(val, rs.val) ELSE rs
    ELSE Apply(fn, <<val>>)

\* a flag set to False rendered as the negated predicate
SingleArgTerm_TruthSensitive(fn, val) ==
    IF IsTupleOrList(val)
    THEN LET rs == Comprehension([i \in 1..Len(val.items) |-> Apply(fn, <<val.items[i]>>)])
         IN  IF rs.ok THEN Conjunction(val, rs.val) ELSE rs
    ELSE IF val.t # "bool" THEN Apply(fn, <<val>>)
    ELSE IF val.n = 0 /\ Apply(fn, <<>>).ok THEN _exclude(Apply(fn, <<>>).val)
    ELSE Apply(fn, <<>>)

\* the branches taken for every other key
SingleArgTerm(fn, val) ==
    IF IsTupleOrList(val)
    THEN LET rs == Comprehension([i \in 1..Len(val.items) |-> Apply(fn, <<val.items[i]>>)])
         IN  IF rs.ok THEN Conjunction(val, rs.val) ELSE rs
    ELSE IF val.t # "bool" THEN Apply(fn, <<val>>) ELSE Apply(fn, <<>>)

\* the exclude flag parsed and then never applied
Negate_Skipped(exclude, term) == term

\* term = _exclude(term) when the key asked for it
Negate(exclude, term) == IF exclude /\ term.ok THEN _exclude(term.val) ELSE term

\* one iteration of the loop over query_terms.items(): the term appended, or the
\* exception raised
Term(key, val) ==
    LET exclude == IsExcluded(key)
        name == IF exclude THEN StripExclude(key) ELSE key
        fn == "_" \o name
    IN  IF fn \notin module_globals THEN Raise("KeyError", fn)
        ELSE IF name \in {"newer_than", "older_than", "near_words"}
        THEN Negate(exclude, MultiArgTerm(fn, val))
        ELSE IF name = "labels" THEN Negate(exclude, LabelsTerm(fn, val))
        ELSE Negate(exclude, SingleArgTerm(fn, val))

\* the terms joined with a separator left after the last one
CombineTerms_TrailingSpace(terms) ==
    IF _and(terms).ok THEN Return(PyStr(_and(terms).val.s \o " ")) ELSE _and(terms)

\* the criteria of one set OR-combined instead
CombineTerms_Or(terms) == _or(terms)

\* return _and(terms)
CombineTerms(terms) == _and(terms)

\* the positional dictionaries AND-combined instead
CombineDicts_And(queries) == _and(queries)

\* return _or([...]) over the positional dictionaries
CombineDicts(queries) == _or(queries)

RECURSIVE construct_query(_, _)
construct_query(dicts, terms) ==
    IF dicts # <<>>
    THEN LET rs == Comprehension([i \in 1..Len(dicts) |-> construct_query(<<>>, dicts[i])])
         IN  IF rs.ok THEN CombineDicts(rs.val) ELSE rs
    ELSE LET rs == Comprehension([i \in 1..Len(terms) |-> Term(terms[i].key, terms[i].val)])
         IN  IF rs.ok THEN CombineTerms(rs.val) ELSE rs


----------------------------------------------------------------------------
(* The calls explored: every criterion name, negated and not, and names    *)
(* that are no criterion, each with scalar, sequence and nested values;    *)
(* keyword calls of several criteria; calls with positional dictionaries.  *)

\* the documented keyword arguments
Criteria ==
    {"sender", "recipient", "subject", "labels", "attachment", "spec_attachment",
     "exact_phrase", "cc", "bcc", "before", "after", "older_than", "newer_than",
     "near_words", "starred", "snoozed", "unread", "read", "important", "drive",
     "docs", "sheets", "slides", "list", "in", "delivered_to", "category",
     "larger", "smaller", "id", "has"}

BooleanCriteria ==
    {"starred", "snoozed", "unread", "read", "important", "attachment",
     "drive", "docs", "sheets", "slides"}

MultiArgCriteria == {"older_than", "newer_than", "near_words"}

SingleArgCriteria == Criteria \ (BooleanCriteria \cup MultiArgCriteria \cup {"labels"})

ExcludedCriteria == {"exclude_" \o c : c \in Criteria}

\* names that are neither a criterion nor exclude_<criterion>
OtherKeys ==
    {"foo", "Sender", "and", "or", "exclude", "label", "construct_query", "_name__",
     "exclude_foo", "excludestarred", "excludeXstarred", "excludeXsender"}

SeqsUpTo(S, n) == UNION {[1..k -> S] : k \in 0..n}

Scalars ==
    {PyStr("a"), PyStr("ab"), PyStr(""), PyStr("a "), PyStr(" a"),
     PyBool(TRUE), PyBool(FALSE), PyInt(5)}

StrAtoms == {PyStr("a"), PyStr("b")}

FlatSeqs ==
    {PyTuple(s) : s \in SeqsUpTo(StrAtoms, MaxLen)}
        \cup {PyList(s) : s \in SeqsUpTo(StrAtoms, MaxLen)}

\* the inner sequences of a nested labels value: every list of label names
\* and the tuples of one and of two label names
InnerSeqs ==
    {PyList(s) : s \in SeqsUpTo(StrAtoms, MaxLen)}
        \cup {PyTuple(<<PyStr("a")>>), PyTuple(<<PyStr("a"), PyStr("b")>>)}

NestedSeqs ==
    {PyTuple(s) : s \in SeqsUpTo(InnerSeqs, MaxOuter) \ {<<>>}}
        \cup {PyList(s) : s \in SeqsUpTo(InnerSeqs, MaxOuter) \ {<<>>}}

\* one value in a list or a tuple
OneElementSeqs ==
    {PyTuple(<<v>>) : v \in Scalars} \cup {PyList(<<v>>) : v \in Scalars}

\* argument sequences for near_words (first, second, distance[, exact]) and for
\* older_than / newer_than (number, unit), of the right and of wrong lengths
PlainArgSeqs ==
    {<<PyStr("a")>>,
     <<PyStr("a"), PyStr("b")>>,
     <<PyStr("a"), PyStr("b"), PyInt(5)>>,
     <<PyStr("a"), PyStr("b"), PyInt(5), PyBool(TRUE)>>,
     <<PyStr("a"), PyStr("b"), PyInt(5), PyBool(FALSE)>>,
     <<PyStr("a"), PyStr("b"), PyInt(5), PyBool(TRUE), PyStr("a")>>,
     <<PyInt(1)>>,
     <<PyInt(1), PyStr("day")>>,
     <<PyInt(12), PyStr("month")>>,
     <<PyInt(2), PyStr("year")>>,
     <<PyInt(1), PyStr("day"), PyStr("a")>>}

\* the arguments of the test, and arguments with empty or padded strings
ArgSeqs ==
    PlainArgSeqs
        \cup {<<PyStr("CS"), PyStr("homework"), PyInt(5)>>,
              <<PyStr(""), PyStr("b"), PyInt(5)>>,
              <<PyStr("a"), PyStr(""), PyInt(5)>>,
              <<PyInt(1), PyStr(" day")>>,
              <<PyInt(1), PyStr("")>>}

ArgTuples == {PyTuple(s) : s \in ArgSeqs} \cup {PyList(s) : s \in ArgSeqs}

SeqsOfArgTuples ==
    {PyTuple(s) : s \in SeqsUpTo({PyTuple(a) : a \in PlainArgSeqs}, MaxOuter) \ {<<>>}}
        \cup {PyList(s) : s \in SeqsUpTo({PyTuple(a) : a \in PlainArgSeqs}, MaxOuter) \ {<<>>}}

\* the values tried with a key
ValuesFor(key) ==
    IF key \in MultiArgCriteria \cup {"exclude_" \o c : c \in MultiArgCriteria}
    THEN Scalars \cup FlatSeqs \cup OneElementSeqs \cup ArgTuples \cup SeqsOfArgTuples
    ELSE IF key \in {"labels", "exclude_labels"}
    THEN Scalars \cup FlatSeqs \cup OneElementSeqs \cup NestedSeqs
    ELSE Scalars \cup FlatSeqs \cup OneElementSeqs \cup ArgTuples

Item(k, v) == [key |-> k, val |-> v]

\* a dictionary: items in insertion order, no key twice
IsDict(d) == \A i, j \in 1..Len(d) : d[i].key = d[j].key => i = j

ItemPool ==
    {Item("sender", PyStr("a")),
     Item("subject", PyList(<<PyStr("a"), PyStr("b")>>)),
     Item("exclude_starred", PyBool(TRUE)),
     Item("labels", PyList(<<PyStr("a"), PyStr("b")>>)),
     Item("newer_than", PyTuple(<<PyInt(1), PyStr("day")>>)),
     Item("exact_phrase", PyTuple(<<PyStr("a"), PyStr("b")>>)),
     Item("unread", PyBool(FALSE)),
     Item("near_words", PyTuple(<<PyStr("a"), PyStr("b")>>)),
     Item("foo", PyBool(TRUE))}

DictItemPool ==
    {Item("sender", PyStr("a")),
     Item("subject", PyList(<<PyStr("a"), PyStr("b")>>)),
     Item("foo", PyBool(TRUE))}

\* the dictionaries passed positionally
DictPool == {d \in SeqsUpTo(DictItemPool, MaxDictItems) : IsDict(d)}

\* the keyword arguments passed along with positional dictionaries
KeywordsBesideDicts ==
    {<<>>, <<Item("sender", PyStr("b"))>>, <<Item("foo", PyBool(TRUE))>>}

NotCalled == [ok |-> FALSE, err |-> "", val |-> PyStr("")]

\* a plain term
Leaf(x) == [op |-> "leaf", s |-> x, kids |-> <<>>]

\* a call of _and, _or or _exclude whose arguments are the expressions ks
Node(o, ks) == [op |-> o, s |-> "", kids |-> ks]

\* the loop's key = key[len('exclude_'):] written back into the dictionary
ArgumentsAfterCall_KeysStripped(dicts, terms) ==
    <<dicts, [i \in 1..Len(terms) |->
                 Item(IF IsExcluded(terms[i].key) THEN StripExclude(terms[i].key)
                      ELSE terms[i].key, terms[i].val)]>>

\* the caller's dictionaries and keyword values once the call is over:
\* construct_query only reads them, key and val are rebound as local names
ArgumentsAfterCall(dicts, terms) == <<dicts, terms>>

Init ==
    /\ pc = "call"
    /\ result = NotCalled
    /\ expr = Leaf("")
    /\ module_globals = GlobalNames
    /\ GmailIdle
    /\ calls = <<>>
    /\ \/ /\ query_dicts = <<>>
          /\ \E k \in Criteria \cup ExcludedCriteria \cup OtherKeys :
                \E v \in ValuesFor(k) : query_terms = <<Item(k, v)>>
       \/ /\ query_dicts = <<>>
          /\ query_terms \in {d \in SeqsUpTo(ItemPool, MaxTerms) : IsDict(d) /\ Len(d) # 1}
       \/ /\ query_dicts \in SeqsUpTo(DictPool, MaxDicts) \ {<<>>}
          /\ query_terms \in KeywordsBesideDicts

\* query.construct_query(*query_dicts, **query_terms)
Call ==
    /\ pc = "call"
    /\ result' = construct_query(query_dicts, query_terms)
    /\ pc' = "done"
    /\ query_dicts' = ArgumentsAfterCall(query_dicts, query_terms)[1]
    /\ query_terms' = ArgumentsAfterCall(query_dicts, query_terms)[2]
    /\ UNCHANGED <<expr, module_globals, calls>>
    /\ UNCHANGED gmailVars

Next == Call

Spec == Init /\ [][Next]_vars

----------------------------------------------------------------------------
(* construct_query called with keyword arguments from several threads at   *)
(* once.  A step of a thread is one iteration of the loop over the         *)
(* criteria, or the final return; terms is the local list of the call.     *)

Threads == 1..NumThreads

ThreadItemPool ==
    {Item("sender", PyStr("a")),
     Item("exclude_starred", PyBool(TRUE)),
     Item("foo", PyBool(TRUE))}

ThreadInputs == {d \in SeqsUpTo(ThreadItemPool, MaxThreadTerms) : IsDict(d)}

\* a call at its first statement: terms = []
NewCall(kw) ==
    [query_terms |-> kw, terms |-> <<>>, i |-> 0, pc |-> "loop", result |-> NotCalled]

\* terms a module-level list that every call appends to
TermsAppended_Shared(cs, t, term) ==
    [u \in DOMAIN cs |->
        IF u = t THEN [cs[u] EXCEPT !.terms = Append(@, term), !.i = @ + 1]
        ELSE [cs[u] EXCEPT !.terms = Append(@, term)]]

\* terms.append(term) in the call of thread t, and the loop moves on
TermsAppended(cs, t, term) ==
    [cs EXCEPT ![t] = [@ EXCEPT !.terms = Append(@, term), !.i = @ + 1]]

InitThreads ==
    /\ pc = "threads"
    /\ result = NotCalled
    /\ query_dicts = <<>>
    /\ query_terms = <<>>
    /\ expr = Leaf("")
    /\ module_globals = GlobalNames
    /\ GmailIdle
    /\ calls \in [Threads -> {NewCall(kw) : kw \in ThreadInputs}]

\* one iteration of for key, val in query_terms.items() in thread t
LoopStep(t) ==
    /\ calls[t].pc = "loop"
    /\ calls[t].i < Len(calls[t].query_terms)
    /\ LET item == calls[t].query_terms[calls[t].i + 1]
           term == Term(item.key, item.val)
       IN  calls' = IF term.ok
                    THEN TermsAppended(calls, t, term.val)
                    ELSE [calls EXCEPT ![t] = [@ EXCEPT !.result = term, !.pc = "done"]]
    /\ UNCHANGED <<query_dicts, query_terms, pc, result, expr, module_globals>>
    /\ UNCHANGED gmailVars

\* return _and(terms) in thread t
ReturnStep(t) ==
    /\ calls[t].pc = "loop"
    /\ calls[t].i = Len(calls[t].query_terms)
    /\ calls' = [calls EXCEPT ![t] =
                    [@ EXCEPT !.result = CombineTerms(PyList(calls[t].terms)),
                              !.pc = "done"]]
    /\ UNCHANGED <<query_dicts, query_terms, pc, result, expr, module_globals>>
    /\ UNCHANGED gmailVars

NextThreads == \E t \in Threads : LoopStep(t) \/ ReturnStep(t)

SpecThreads == InitThreads /\ [][NextThreads]_vars

----------------------------------------------------------------------------
(* The combinators called on their own, as the tests of _and, _or and      *)
(* _exclude call them: on plain terms and on the results of nested calls.  *)

\* test_and: _and([_and([_and(a b c), _and(d e f)]), _and([_and(g h i), j])])
TestAndExpr ==
    Node("and", <<Node("and", <<Node("and", <<Leaf("a"), Leaf("b"), Leaf("c")>>),
                                Node("and", <<Leaf("d"), Leaf("e"), Leaf("f")>>)>>),
                  Node("and", <<Node("and", <<Leaf("g"), Leaf("h"), Leaf("i")>>),
                                Leaf("j")>>)>>)

\* test_or: the same nesting with _or
TestOrExpr ==
    Node("or", <<Node("or", <<Node("or", <<Leaf("a"), Leaf("b"), Leaf("c")>>),
                              Node("or", <<Leaf("d"), Leaf("e"), Leaf("f")>>)>>),
                 Node("or", <<Node("or", <<Leaf("g"), Leaf("h"), Leaf("i")>>),
                              Leaf("j")>>)>>)

\* the nesting of test_and under _or: the two AND-groups of the test combined
\* with _or at the top
MixedExpr ==
    Node("or", <<Node("and", <<Node("and", <<Leaf("a"), Leaf("b"), Leaf("c")>>),
                               Node("and", <<Leaf("d"), Leaf("e"), Leaf("f")>>)>>),
                 Node("and", <<Node("and", <<Leaf("g"), Leaf("h"), Leaf("i")>>),
                               Leaf("j")>>)>>)

\* test_exclude: _exclude('a')
TestExcludeExpr == Node("exclude", <<Leaf("a")>>)

LeafExprs == {Leaf("a"), Leaf("b")}

\* plain terms and calls on plain terms
GroupExprs ==
    LeafExprs
        \cup {Node("and", ks) : ks \in SeqsUpTo(LeafExprs, MaxGroup)}
        \cup {Node("or", ks) : ks \in SeqsUpTo(LeafExprs, MaxGroup)}
        \cup {Node("exclude", <<l>>) : l \in LeafExprs}

\* plain terms and the groups of MaxGroup plain terms
FullGroupExprs ==
    LeafExprs
        \cup {Node("and", ks) : ks \in [1..MaxGroup -> LeafExprs]}
        \cup {Node("or", ks) : ks \in [1..MaxGroup -> LeafExprs]}

\* calls on the results of calls
NestedExprs ==
    {Node("and", ks) : ks \in SeqsUpTo(FullGroupExprs, MaxNest) \ {<<>>}}
        \cup {Node("or", ks) : ks \in SeqsUpTo(FullGroupExprs, MaxNest) \ {<<>>}}
        \cup {Node("exclude", <<g>>) : g \in GroupExprs}

RECURSIVE Eval(_)
\* the string an expression evaluates to: arguments are evaluated before the call
Eval(e) ==
    CASE e.op = "leaf" -> e.s
      [] e.op = "and" -> _and(PyList([i \in 1..Len(e.kids) |-> PyStr(Eval(e.kids[i]))])).val.s
      [] e.op = "or" -> _or(PyList([i \in 1..Len(e.kids) |-> PyStr(Eval(e.kids[i]))])).val.s
      [] e.op = "exclude" -> _exclude(PyStr(Eval(e.kids[1]))).val.s

\* the evaluated arguments of the outermost call
Arguments(e) == [i \in 1..Len(e.kids) |-> PyStr(Eval(e.kids[i]))]

InitCombine ==
    /\ pc = "combine"
    /\ result = NotCalled
    /\ query_dicts = <<>>
    /\ query_terms = <<>>
    /\ module_globals = GlobalNames
    /\ GmailIdle
    /\ calls = <<>>
    /\ expr \in ((GroupExprs \cup NestedExprs) \ LeafExprs)
                  \cup {TestAndExpr, TestOrExpr, TestExcludeExpr, MixedExpr}

\* query._and(queries)
CallAnd ==
    /\ pc = "combine"
    /\ expr.op = "and"
    /\ result' = _and(PyList(Arguments(expr)))
    /\ pc' = "combined"
    /\ UNCHANGED <<query_dicts, query_terms, expr, module_globals, calls>>
    /\ UNCHANGED gmailVars

\* query._or(queries)
CallOr ==
    /\ pc = "combine"
    /\ expr.op = "or"
    /\ result' = _or(PyList(Arguments(expr)))
    /\ pc' = "combined"
    /\ UNCHANGED <<query_dicts, query_terms, expr, module_globals, calls>>
    /\ UNCHANGED gmailVars

\* query._exclude(term)
CallExclude ==
    /\ pc = "combine"
    /\ expr.op = "exclude"
    /\ result' = _exclude(Arguments(expr)[1])
    /\ pc' = "combined"
    /\ UNCHANGED <<query_dicts, query_terms, expr, module_globals, calls>>
    /\ UNCHANGED gmailVars

NextCombine == CallAnd \/ CallOr \/ CallExclude

SpecCombine == InitCombine /\ [][NextCombine]_vars

----------------------------------------------------------------------------
(* Gmail: message payloads and the messages built from them                *)
(* (simplegmail/gmail.py).  A payload is a tree of parts; what is kept of  *)
(* a part is its MIME type, whether its body names an attachment, whether  *)
(* the body carries its data inline, and its sub-parts.                    *)

Modes == {"ignore", "reference", "download"}

AttachmentPart(inline) ==
    [mimeType |-> "application/pdf", attachmentId |-> TRUE, data |-> inline, parts |-> <<>>]

PlainPart ==
    [mimeType |-> "text/plain", attachmentId |-> FALSE, data |-> TRUE, parts |-> <<>>]

HtmlPart ==
    [mimeType |-> "text/html", attachmentId |-> FALSE, data |-> TRUE, parts |-> <<>>]

Multipart(ps) ==
    [mimeType |-> "multipart/mixed", attachmentId |-> FALSE, data |-> FALSE, parts |-> ps]

\* the payloads the server holds
PayloadPool ==
    {PlainPart,
     Multipart(<<PlainPart, AttachmentPart(FALSE)>>),
     Multipart(<<Multipart(<<PlainPart, HtmlPart>>), AttachmentPart(TRUE),
                 AttachmentPart(FALSE)>>)}

RECURSIVE Extend(_)
\* ret.extend(...) over a sequence of lists
Extend(lists) ==
    IF lists = <<>> THEN <<>> ELSE Head(lists) \o Extend(Tail(lists))

RECURSIVE _evaluate_message_payload(_, _)
\* the parts of a payload: an attachment is dropped ('ignore'), kept with
\* data None ('reference') or kept with its data (any other mode)
_evaluate_message_payload(payload, mode) ==
    IF payload.attachmentId
    THEN IF mode = "ignore" THEN <<>>
         ELSE IF mode = "reference" THEN <<[part_type |-> "attachment", data |-> "None"]>>
         ELSE <<[part_type |-> "attachment", data |-> "bytes"]>>
    ELSE IF payload.mimeType = "text/html" THEN <<[part_type |-> "html", data |-> "body"]>>
    ELSE IF payload.mimeType = "text/plain" THEN <<[part_type |-> "plain", data |-> "body"]>>
    ELSE IF payload.mimeType = "multipart/mixed"
    THEN Extend([i \in 1..Len(payload.parts) |->
                    _evaluate_message_payload(payload.parts[i], mode)])
    ELSE <<>>

IsAttachment(part) == part.part_type = "attachment"

\* the Message: its id and, for each Attachment, its data
_build_message_from_raw_json(msg_id, payload, mode) ==
    [msg_id |-> msg_id,
     attachments |->
         LET attms == SelectSeq(_evaluate_message_payload(payload, mode), IsAttachment)
         IN  [i \in 1..Len(attms) |-> attms[i].data]]

\* attachments: str = "reference", the default of _build_message_from_raw_json
DefaultAttachments == "reference"

\* messages().get() answers or fails; the message is built from the answer
\* by _build_message_from_raw_json(message, message_raw=message_raw), which
\* is not given the mode
_build_message_from_ref(message_ref, mode) ==
    IF message_ref \in failing
    THEN [ok |-> FALSE, err |-> "HttpError",
          val |-> _build_message_from_raw_json(message_ref, PlainPart, DefaultAttachments)]
    ELSE [ok |-> TRUE, err |-> "",
          val |-> _build_message_from_raw_json(message_ref, mailbox[message_ref],
                                               DefaultAttachments)]

----------------------------------------------------------------------------
(* Gmail._get_messages_from_refs: the references are split into batches,   *)
(* one worker thread per batch.  A worker reads message_refs and the       *)
(* batch bounds, uses a Gmail object of its own and writes once, into      *)
(* message_lists[thread_num], when its whole batch is built; a step of a   *)
(* worker is therefore its whole function.                                 *)

max_num_threads == 12

target_msgs_per_thread == 10

\* math.ceil(a / b) for positive b
Ceil(a, b) == (a + b - 1) \div b

Min(a, b) == IF a <= b THEN a ELSE b

num_threads(n) == Min(Ceil(n, target_msgs_per_thread), max_num_threads)

\* the batch size rounded down
batch_size_Floor(n) == n \div num_threads(n)

batch_size(n) == Ceil(n, num_threads(n))

\* start and end of thread_download_batch(thread_num)
BatchStart(thread_num, n) == thread_num * batch_size(n)

BatchEnd(thread_num, n) == Min(n, (thread_num + 1) * batch_size(n))

\* range(start, end)
Range(a, b) == {i \in a..(b - 1) : TRUE}

ThreadNums == 0..(num_threads(Len(message_refs)) - 1)

\* a slot of message_lists: None, or a list of messages
NoneSlot == [none |-> TRUE, items |-> <<>>]

ListSlot(ms) == [none |-> FALSE, items |-> ms]

Returned(ms) == [kind |-> "return", err |-> "", messages |-> ms]

Raised(e) == [kind |-> "raise", err |-> e, messages |-> <<>>]

RECURSIVE SumFrom(_, _, _)
\* sum(message_lists, []): list + None raises TypeError
SumFrom(lists, t, acc) ==
    IF t \notin DOMAIN lists THEN Returned(acc)
    ELSE IF lists[t].none THEN Raised("TypeError")
    ELSE SumFrom(lists, t + 1, acc \o lists[t].items)

\* if not message_refs: return []
ReturnEmpty ==
    /\ main = "call"
    /\ message_refs = <<>>
    /\ outcome' = Returned(<<>>)
    /\ main' = "returned"
    /\ UNCHANGED <<mailbox, failing, message_refs, attachments, message_lists, threads,
                   fetched, caller_labels, request, sent, ncalls>>
    /\ UNCHANGED queryVars

\* message_lists = [None] * num_threads, the threads created and started
StartThreads ==
    /\ main = "call"
    /\ message_refs # <<>>
    /\ message_lists' = [t \in ThreadNums |-> NoneSlot]
    /\ threads' = [t \in ThreadNums |-> "running"]
    /\ main' = "started"
    /\ UNCHANGED <<mailbox, failing, message_refs, attachments, fetched, outcome,
                   caller_labels, request, sent, ncalls>>
    /\ UNCHANGED queryVars

\* thread_download_batch(thread_num): the messages of the batch are built in
\* order; the first HttpError ends the thread with its slot still None
thread_download_batch(thread_num) ==
    /\ main = "started"
    /\ threads[thread_num] = "running"
    /\ LET n == Len(message_refs)
           start == BatchStart(thread_num, n)
           end == BatchEnd(thread_num, n)
           bad == {i \in Range(start, end) : message_refs[i + 1] \in failing}
           stop == IF bad = {} THEN end
                   ELSE 1 + CHOOSE i \in bad : \A j \in bad : i <= j
       IN  /\ fetched' = [i \in DOMAIN fetched |->
                              IF start <= i /\ i < stop THEN fetched[i] + 1 ELSE fetched[i]]
           /\ IF bad = {}
              THEN /\ message_lists' =
                          [message_lists EXCEPT ![thread_num] =
                              ListSlot([k \in 1..(end - start) |->
                                  _build_message_from_ref(message_refs[start + k],
                                                          attachments).val])]
                   /\ threads' = [threads EXCEPT ![thread_num] = "finished"]
              ELSE /\ threads' = [threads EXCEPT ![thread_num] = "died"]
                   /\ UNCHANGED message_lists
    /\ UNCHANGED <<mailbox, failing, message_refs, attachments, main, outcome,
                   caller_labels, request, sent, ncalls>>
    /\ UNCHANGED queryVars

\* every thread joined, then return sum(message_lists, [])
JoinAndReturn ==
    /\ main = "started"
    /\ \A t \in DOMAIN threads : threads[t] \in {"finished", "died"}
    /\ outcome' = SumFrom(message_lists, 0, <<>>)
    /\ main' = "returned"
    /\ UNCHANGED <<mailbox, failing, message_refs, attachments, message_lists, threads,
                   fetched, caller_labels, request, sent, ncalls>>
    /\ UNCHANGED queryVars

\* no call of construct_query or of a combinator in progress
QueryIdle ==
    /\ pc = "gmail"
    /\ result = NotCalled
    /\ query_dicts = <<>>
    /\ query_terms = <<>>
    /\ expr = Leaf("")
    /\ module_globals = GlobalNames
    /\ calls = <<>>

\* a number of references for which ceil(n / 10) exceeds the cap of 12 threads
CappedRefCounts == {121}

\* the payload behind the i-th reference
PayloadOf(i) ==
    CASE i % 3 = 0 -> PlainPart
      [] i % 3 = 1 -> Multipart(<<PlainPart, AttachmentPart(FALSE)>>)
      [] i % 3 = 2 -> Multipart(<<Multipart(<<PlainPart, HtmlPart>>), AttachmentPart(TRUE),
                                  AttachmentPart(FALSE)>>)

\* get_messages_from_refs(message_refs, attachments=mode) with n references,
\* of which at most one fails
InitFetch ==
    /\ QueryIdle
    /\ \E n \in (0..MaxRefs) \cup CappedRefCounts :
           /\ message_refs = [i \in 1..n |-> i]
           /\ mailbox = [i \in 1..n |-> PayloadOf(i)]
           /\ fetched = [i \in 0..(n - 1) |-> 0]
           /\ IF n <= MaxRefs
              THEN /\ failing \in {{}} \cup {{i} : i \in 1..n}
                   /\ attachments \in Modes
              ELSE /\ failing \in {{}, {n}}
                   /\ attachments = "reference"
    /\ message_lists = <<>>
    /\ threads = <<>>
    /\ main = "call"
    /\ outcome = NoOutcome
    /\ caller_labels = NoLabels
    /\ request = [method |-> "get_messages_from_refs", attachments |-> attachments,
                  labels |-> NoLabels]
    /\ sent = <<>>
    /\ ncalls = 1

NextFetch ==
    \/ ReturnEmpty
    \/ StartThreads
    \/ \E t \in DOMAIN threads : thread_download_batch(t)
    \/ JoinAndReturn

SpecFetch == InitFetch /\ [][NextFetch]_vars

----------------------------------------------------------------------------
(* Gmail.get_messages and the wrappers around it, called one after the     *)
(* other by a caller who passes the same labels list (or none) each time.  *)

Wrappers ==
    {"get_unread_inbox", "get_starred_messages", "get_important_messages",
     "get_unread_messages", "get_drafts", "get_sent_messages",
     "get_trash_messages", "get_spam_messages"}

\* labels.append(label.X) of each wrapper, and of the wrapper it calls
LabelsAppended(method) ==
    CASE method = "get_unread_inbox" -> <<"INBOX", "UNREAD">>
      [] method = "get_starred_messages" -> <<"STARRED">>
      [] method = "get_important_messages" -> <<"IMPORTANT">>
      [] method = "get_unread_messages" -> <<"UNREAD">>
      [] method = "get_drafts" -> <<"DRAFT">>
      [] method = "get_sent_messages" -> <<"SENT">>
      [] method = "get_trash_messages" -> <<"TRASH">>
      [] method = "get_spam_messages" -> <<"SPAM">>

\* the attachments argument get_messages receives: get_unread_inbox calls
\* get_unread_messages(user_id, labels, query), which takes its default
AttachmentsPassedOn(method, mode) ==
    IF method = "get_unread_inbox" THEN "reference" ELSE mode

\* get_messages from its messages().list() request on: every message of the
\* mailbox is listed, then _get_messages_from_refs is entered
ListAndFetch(labels_ids, mode) ==
    /\ sent' = labels_ids
    /\ message_refs' = [i \in 1..Len(mailbox) |-> i]
    /\ attachments' = mode
    /\ message_lists' = <<>>
    /\ threads' = <<>>
    /\ fetched' = [i \in 0..(Len(mailbox) - 1) |-> 0]
    /\ main' = "call"
    /\ outcome' = NoOutcome
    /\ ncalls' = ncalls + 1

\* the caller may call: nothing is running and calls are left
CallerReady == main \in {"idle", "returned"} /\ ncalls < MaxCalls

\* gmail.<method>(labels=caller_labels, attachments=mode): if labels is None
\* a new list is made, otherwise the caller's list is appended to
CallWrapper(method, mode) ==
    /\ CallerReady
    /\ request' = [method |-> method, attachments |-> mode, labels |-> caller_labels]
    /\ caller_labels' =
           IF caller_labels.none THEN caller_labels
           ELSE LabelList(caller_labels.items \o LabelsAppended(method))
    /\ ListAndFetch(caller_labels.items \o LabelsAppended(method),
                    AttachmentsPassedOn(method, mode))
    /\ UNCHANGED <<mailbox, failing>>
    /\ UNCHANGED queryVars

\* gmail.get_messages(labels=caller_labels, attachments=mode)
get_messages(mode) ==
    /\ CallerReady
    /\ request' = [method |-> "get_messages", attachments |-> mode, labels |-> caller_labels]
    /\ ListAndFetch(caller_labels.items, mode)
    /\ UNCHANGED <<mailbox, failing, caller_labels>>
    /\ UNCHANGED queryVars

Mailboxes ==
    {<<>>,
     <<Multipart(<<PlainPart, AttachmentPart(FALSE)>>)>>,
     <<PlainPart,
       Multipart(<<Multipart(<<PlainPart, HtmlPart>>), AttachmentPart(TRUE),
                   AttachmentPart(FALSE)>>)>>}

InitGmail ==
    /\ QueryIdle
    /\ mailbox \in Mailboxes
    /\ failing = {}
    /\ caller_labels \in {NoLabels, LabelList(<<>>), LabelList(<<"Label_1">>)}
    /\ message_refs = <<>>
    /\ attachments = ""
    /\ message_lists = <<>>
    /\ threads = <<>>
    /\ fetched = <<>>
    /\ main = "idle"
    /\ outcome = NoOutcome
    /\ request = NoRequest
    /\ sent = <<>>
    /\ ncalls = 0

NextGmail ==
    \/ \E method \in Wrappers, mode \in Modes : CallWrapper(method, mode)
    \/ \E mode \in Modes : get_messages(mode)
    \/ NextFetch

SpecGmail == InitGmail /\ [][NextGmail]_vars

----------------------------------------------------------------------------
(* The rendering grammar the properties are stated in.                     *)

\* AND of one term: the term; of more: ( terms joined by one space )
AndText(strs) == IF Len(strs) = 1 THEN strs[1] ELSE "(" \o Join(" ", strs) \o ")"

\* OR of one term: the term; of more: { terms joined by one space }
OrText(strs) == IF Len(strs) = 1 THEN strs[1] ELSE "{" \o Join(" ", strs) \o "}"

\* the call has run with keyword arguments only
KeywordCallDone == pc = "done" /\ query_dicts = <<>>

\* the call has run with exactly one keyword argument
OneCriterionDone == KeywordCallDone /\ Len(query_terms) = 1

\* build_query with the one keyword argument k=v, run on its own
Alone(k, v) == construct_query(<<>>, <<Item(k, v)>>)

\* the first index at which a sequence of outcomes holds an exception
FirstRaised(rs) == CHOOSE i \in 1..Len(rs) : ~rs[i].ok /\ \A j \in 1..(i - 1) : rs[j].ok

----------------------------------------------------------------------------
(* C1: with positional dictionaries d1..dn the keyword arguments are       *)
(* ignored and the result is the OR-combination of build_query applied to  *)
(* d1, ..., dn in the given order; the first dictionary that fails makes   *)
(* the call fail with its exception.                                       *)
C1_DictsAreOrCombined ==
    (pc = "done" /\ query_dicts # <<>>) =>
        LET each == [i \in 1..Len(query_dicts) |-> construct_query(<<>>, query_dicts[i])]
        IN  IF \A i \in 1..Len(each) : each[i].ok
            THEN result = Return(PyStr(OrText([i \in 1..Len(each) |-> each[i].val.s])))
            ELSE result = each[FirstRaised(each)]

C1_Witness ==
    /\ pc = "done"
    /\ query_dicts = << <<Item("subject", PyList(<<PyStr("a"), PyStr("b")>>)),
                          Item("sender", PyStr("a"))>>,
                        <<Item("sender", PyStr("a"))>> >>
    /\ query_terms = <<Item("sender", PyStr("b"))>>
    /\ result = Return(PyStr("{({subject:a subject:b} from:a) from:a}"))

(* C2: within one criterion set of n >= 2 criteria the result is           *)
(* ( t1 t2 ... tn ), ti the term rendered for the i-th criterion, in the   *)
(* insertion order of the criteria.                                        *)
C2_TermsAndedInOrder ==
    (KeywordCallDone /\ Len(query_terms) >= 2) =>
        LET each == [i \in 1..Len(query_terms) |-> Alone(query_terms[i].key, query_terms[i].val)]
        IN  (\A i \in 1..Len(each) : each[i].ok) =>
                result = Return(PyStr("(" \o Join(" ", [i \in 1..Len(each) |-> each[i].val.s]) \o ")"))

C2_Witness ==
    /\ KeywordCallDone
    /\ query_terms = <<Item("labels", PyList(<<PyStr("a"), PyStr("b")>>)),
                       Item("exclude_starred", PyBool(TRUE)),
                       Item("sender", PyStr("a"))>>
    /\ result = Return(PyStr("((label:a label:b) -is:starred from:a)"))

(* C3: for every criterion X and value v, exclude_X=v renders as "-"       *)
(* followed by the whole term rendered for X=v, and fails as X=v fails.    *)
C3_ExcludeNegatesWholeTerm ==
    \A X \in Criteria :
        (OneCriterionDone /\ query_terms[1].key = "exclude_" \o X) =>
            LET positive == Alone(X, query_terms[1].val)
            IN  IF positive.ok
                THEN result = Return(PyStr("-" \o Format(positive.val)))
                ELSE result = positive

C3_Witness ==
    /\ OneCriterionDone
    /\ query_terms = <<Item("exclude_labels", PyList(<<PyStr("a"), PyStr("b")>>))>>
    /\ result = Return(PyStr("-(label:a label:b)"))

(* C4: for every name k that is neither a criterion nor exclude_<criterion>, *)
(* build_query with k=True fails with the unknown-criterion error (the     *)
(* KeyError of the lookup) and returns no string.                          *)
C4_UnknownKeyRaises ==
    (/\ OneCriterionDone
     /\ query_terms[1].key \notin Criteria \cup ExcludedCriteria
     /\ query_terms[1].val = PyBool(TRUE))
        => (~result.ok /\ result.err = "KeyError")

(* C5: a fixed-arity criterion given an argument tuple with a number of    *)
(* elements its rendering function does not accept fails with an argument  *)
(* error (TypeError; IndexError for the empty tuple) and returns no string. *)
C5_WrongArityRaises ==
    \A X \in MultiArgCriteria :
        (/\ OneCriterionDone
         /\ query_terms[1].key = X
         /\ query_terms[1].val.t = "tuple"
         /\ \A i \in 1..Len(query_terms[1].val.items) : ~IsTupleOrList(query_terms[1].val.items[i])
         /\ Len(query_terms[1].val.items) \notin Arity("_" \o X))
            => (~result.ok /\ result.err \in {"TypeError", "IndexError"})

C5_Witness ==
    /\ OneCriterionDone
    /\ query_terms = <<Item("near_words", PyTuple(<<PyStr("a"), PyStr("b")>>))>>
    /\ ~result.ok
    /\ result.err = "TypeError"

(* C6: build_query() with no dictionaries and no keyword criteria returns  *)
(* the empty string.                                                       *)
C6_EmptyCallReturnsEmptyString ==
    (KeywordCallDone /\ query_terms = <<>>) => result = Return(PyStr(""))

(* C7: for every non-boolean single-argument criterion, a tuple value     *)
(* (v1..vn) renders as the AND-combination and a list value [v1..vn] as    *)
(* the OR-combination of the rendered elements, in order (n >= 1, the      *)
(* elements strings or numbers).                                           *)
C7_TupleAndsListOrs ==
    \A X \in SingleArgCriteria :
        (/\ OneCriterionDone
         /\ query_terms[1].key = X
         /\ IsTupleOrList(query_terms[1].val)
         /\ Len(query_terms[1].val.items) >= 1
         /\ \A i \in 1..Len(query_terms[1].val.items) : query_terms[1].val.items[i].t \in {"str", "int"})
            => LET val == query_terms[1].val
                   each == [i \in 1..Len(val.items) |-> Alone(X, val.items[i]).val.s]
               IN  result = Return(PyStr(IF val.t = "tuple" THEN AndText(each) ELSE OrText(each)))

C7_Witness ==
    /\ OneCriterionDone
    /\ query_terms = <<Item("cc", PyTuple(<<PyStr("b"), PyStr("a")>>))>>
    /\ result = Return(PyStr("(cc:b cc:a)"))

(* C8: for labels, a flat sequence of label names, list or tuple, renders  *)
(* as the AND-combination of the tokens label:X, in order.                 *)
C8_FlatLabelsAnded ==
    (/\ OneCriterionDone
     /\ query_terms[1].key = "labels"
     /\ IsTupleOrList(query_terms[1].val)
     /\ Len(query_terms[1].val.items) >= 1
     /\ \A i \in 1..Len(query_terms[1].val.items) : query_terms[1].val.items[i].t = "str")
        => LET val == query_terms[1].val
           IN  result = Return(PyStr(AndText([i \in 1..Len(val.items) |-> "label:" \o val.items[i].s])))

C8_Witness ==
    /\ OneCriterionDone
    /\ query_terms = <<Item("labels", PyTuple(<<PyStr("a"), PyStr("b")>>))>>
    /\ result = Return(PyStr("(label:a label:b)"))

\* the AND-group of one inner sequence of label names
LabelGroup(inner) == AndText([i \in 1..Len(inner.items) |-> "label:" \o inner.items[i].s])

\* labels was given a sequence of non-empty sequences of label names
NestedLabelsDone ==
    /\ OneCriterionDone
    /\ query_terms[1].key = "labels"
    /\ IsTupleOrList(query_terms[1].val)
    /\ Len(query_terms[1].val.items) >= 1
    /\ \A i \in 1..Len(query_terms[1].val.items) :
          /\ IsTupleOrList(query_terms[1].val.items[i])
          /\ Len(query_terms[1].val.items[i].items) >= 1

(* C9, as stated: for labels, a sequence of sequences of label names       *)
(* renders as the OR-combination of the AND-groups of its inner sequences, *)
(* whatever the type (list or tuple) of the outer sequence.                *)
C9_NestedLabelsAlwaysOred ==
    NestedLabelsDone =>
        LET val == query_terms[1].val
        IN  result = Return(PyStr(OrText([i \in 1..Len(val.items) |-> LabelGroup(val.items[i])])))

(* C9, amended: for labels, a list of sequences of label names renders as  *)
(* the OR-combination of the AND-groups of its inner sequences, and a      *)
(* tuple of sequences as their AND-combination.                            *)
C9_NestedLabelsFollowOuterType ==
    NestedLabelsDone =>
        LET val == query_terms[1].val
            groups == [i \in 1..Len(val.items) |-> LabelGroup(val.items[i])]
        IN  result = Return(PyStr(IF val.t = "tuple" THEN AndText(groups) ELSE OrText(groups)))

C9_Witness ==
    /\ OneCriterionDone
    /\ query_terms = <<Item("labels", PyList(<<PyList(<<PyStr("a"), PyStr("b")>>),
                                               PyList(<<PyStr("b"), PyStr("a")>>)>>))>>
    /\ result = Return(PyStr("{(label:a label:b) (label:b label:a)}"))

(* C10: for near_words, older_than and newer_than, a single argument       *)
(* tuple renders as exactly one term, the one its rendering function       *)
(* returns; a list of argument tuples renders as the OR-combination and a  *)
(* tuple of argument tuples as the AND-combination of the per-tuple terms, *)
(* and fails as the first failing argument tuple fails.                    *)
C10_ArgumentTuplesCombined ==
    \A X \in MultiArgCriteria :
        (/\ OneCriterionDone
         /\ query_terms[1].key = X
         /\ IsTupleOrList(query_terms[1].val)
         /\ Len(query_terms[1].val.items) >= 1)
            => LET val == query_terms[1].val
                   each == [i \in 1..Len(val.items) |-> Alone(X, val.items[i])]
               IN  IF \A i \in 1..Len(val.items) : ~IsTupleOrList(val.items[i])
                   THEN result = Apply("_" \o X, val.items)
                   ELSE IF \A i \in 1..Len(val.items) : val.items[i].t = "tuple"
                   THEN IF \A i \in 1..Len(each) : each[i].ok
                        THEN result = Return(PyStr(
                                 IF val.t = "tuple"
                                 THEN AndText([i \in 1..Len(each) |-> each[i].val.s])
                                 ELSE OrText([i \in 1..Len(each) |-> each[i].val.s])))
                        ELSE ~result.ok
                   ELSE TRUE

C10_Witness ==
    /\ OneCriterionDone
    /\ query_terms = <<Item("newer_than", PyList(<<PyTuple(<<PyInt(1), PyStr("day")>>),
                                                   PyTuple(<<PyInt(12), PyStr("month")>>)>>))>>
    /\ result = Return(PyStr("{newer_than:1d newer_than:12m}"))

(* C11: for every boolean-valued criterion X, X=True and X=False return   *)
(* the same string, and so do exclude_X=True and exclude_X=False: only the *)
(* presence of the key is rendered.                                        *)
C11_TruthValueNotRendered ==
    \A X \in BooleanCriteria : \A k \in {X, "exclude_" \o X} :
        (OneCriterionDone /\ query_terms[1].key = k /\ query_terms[1].val.t = "bool")
            => /\ result.ok
               /\ result.val.t = "str"
               /\ result = Alone(k, PyBool(TRUE))
               /\ result = Alone(k, PyBool(FALSE))

C11_Witness ==
    /\ OneCriterionDone
    /\ query_terms = <<Item("exclude_attachment", PyBool(FALSE))>>
    /\ result = Return(PyStr("-has:attachment"))

\* the strings of the arguments the outermost combinator call was given
ArgumentTexts == [i \in 1..Len(expr.kids) |-> Eval(expr.kids[i])]

(* C12: _and of n >= 2 terms returns ( terms joined by one space ), of     *)
(* exactly one term that term unchanged; terms that are groups are         *)
(* embedded verbatim and in order, and the nesting of test_and renders     *)
(* (((a b c) (d e f)) ((g h i) j)).                                        *)
C12_AndRendering ==
    (pc = "combined" /\ expr.op = "and") =>
        /\ Len(expr.kids) >= 2 =>
              result = Return(PyStr("(" \o Join(" ", ArgumentTexts) \o ")"))
        /\ Len(expr.kids) = 1 => result = Return(PyStr(ArgumentTexts[1]))
        /\ expr = TestAndExpr => result = Return(PyStr("(((a b c) (d e f)) ((g h i) j))"))

C12_Witness ==
    /\ pc = "combined"
    /\ expr = TestAndExpr
    /\ result = Return(PyStr("(((a b c) (d e f)) ((g h i) j))"))

(* C13: _or of n >= 2 terms returns { terms joined by one space }, of      *)
(* exactly one term that term unchanged; terms that are groups are         *)
(* embedded verbatim and in order, and the nesting of test_or renders      *)
(* {{{a b c} {d e f}} {{g h i} j}}.                                        *)
C13_OrRendering ==
    (pc = "combined" /\ expr.op = "or") =>
        /\ Len(expr.kids) >= 2 =>
              result = Return(PyStr("{" \o Join(" ", ArgumentTexts) \o "}"))
        /\ Len(expr.kids) = 1 => result = Return(PyStr(ArgumentTexts[1]))
        /\ expr = TestOrExpr => result = Return(PyStr("{{{a b c} {d e f}} {{g h i} j}}"))

C13_Witness ==
    /\ pc = "combined"
    /\ expr = TestOrExpr
    /\ result = Return(PyStr("{{{a b c} {d e f}} {{g h i} j}}"))

(* C14: _exclude(term) is "-" followed by the term, grouped or not, with   *)
(* nothing inserted and the term unchanged.                                *)
C14_ExcludePrefixesMinus ==
    (pc = "combined" /\ expr.op = "exclude") =>
        /\ result = Return(PyStr("-" \o ArgumentTexts[1]))
        /\ expr = TestExcludeExpr => result = Return(PyStr("-a"))

C14_Witness ==
    /\ pc = "combined"
    /\ expr = Node("exclude", <<Node("or", <<Leaf("b"), Leaf("a")>>)>>)
    /\ result = Return(PyStr("-{b a}"))

\* one positional dictionary and no keyword argument
OneDictDone == pc = "done" /\ Len(query_dicts) = 1 /\ query_terms = <<>>

\* a single-argument criterion, possibly excluded, given a one-element sequence
OneElementValueDone ==
    /\ OneCriterionDone
    /\ query_terms[1].key \in SingleArgCriteria \cup {"exclude_" \o c : c \in SingleArgCriteria}
    /\ IsTupleOrList(query_terms[1].val)
    /\ Len(query_terms[1].val.items) = 1

\* one dictionary renders as its criteria passed by keyword, and one
\* criterion renders as its term alone
OneDictOneCriterionCollapse ==
    /\ OneDictDone => result = construct_query(<<>>, query_dicts[1])
    /\ OneCriterionDone => result = Term(query_terms[1].key, query_terms[1].val)

(* C15 as stated: for a non-boolean single-argument criterion X, X=[v]     *)
(* and X=(v,) render as X=v for every value v; one dictionary d renders    *)
(* as its criteria passed by keyword; one criterion renders as its term    *)
(* with no wrapping punctuation.                                           *)
C15_SingletonCollapsesForEveryValue ==
    /\ OneElementValueDone =>
           result = Alone(query_terms[1].key, query_terms[1].val.items[1])
    /\ OneDictOneCriterionCollapse

(* C15 amended: X=[v] and X=(v,) render as X=v when v is a string or a     *)
(* number; one dictionary d renders as its criteria passed by keyword;     *)
(* one criterion renders as its term with no wrapping punctuation.         *)
C15_SingletonCollapsesForStrings ==
    /\ (OneElementValueDone /\ query_terms[1].val.items[1].t \in {"str", "int"}) =>
           result = Alone(query_terms[1].key, query_terms[1].val.items[1])
    /\ OneDictOneCriterionCollapse

C15_Witness ==
    /\ OneCriterionDone
    /\ query_terms = <<Item("subject", PyTuple(<<PyStr("ab")>>))>>
    /\ result = Return(PyStr("subject:ab"))

\* the keyword the specification gives for each string criterion
KeywordOf ==
    [X \in SingleArgCriteria \ {"exact_phrase"} |->
        CASE X = "sender" -> "from:"
          [] X = "recipient" -> "to:"
          [] X = "subject" -> "subject:"
          [] X = "cc" -> "cc:"
          [] X = "bcc" -> "bcc:"
          [] X = "before" -> "before:"
          [] X = "after" -> "after:"
          [] X = "spec_attachment" -> "filename:"
          [] X = "list" -> "list:"
          [] X = "in" -> "in:"
          [] X = "delivered_to" -> "deliveredto:"
          [] X = "category" -> "category:"
          [] X = "larger" -> "larger:"
          [] X = "smaller" -> "smaller:"
          [] X = "id" -> "rfc822msgid:"
          [] X = "has" -> "has:"]

\* the constant token the specification gives for each boolean criterion
TokenOf ==
    [X \in BooleanCriteria |->
        CASE X \in {"starred", "snoozed", "unread", "read", "important"} -> "is:" \o X
          [] X = "attachment" -> "has:attachment"
          [] X = "drive" -> "has:drive"
          [] X = "docs" -> "has:document"
          [] X = "sheets" -> "has:spreadsheet"
          [] X = "slides" -> "has:presentation"]

\* the text of a string or number value
ValueText(v) == IF v.t = "str" THEN v.s ELSE IntToStr(v.n)

(* C16: every leaf criterion renders through its one fixed template: a     *)
(* string criterion as keyword:value with no space around the colon,       *)
(* exact_phrase as the phrase in double quotes, a boolean criterion as     *)
(* its constant token.                                                     *)
C16_LeafTemplates ==
    OneCriterionDone =>
        LET X == query_terms[1].key
            v == query_terms[1].val
        IN  /\ (X \in DOMAIN KeywordOf /\ v.t \in {"str", "int"}) =>
                   result = Return(PyStr(KeywordOf[X] \o ValueText(v)))
            /\ (X = "exact_phrase" /\ v.t \in {"str", "int"}) =>
                   result = Return(PyStr("\"" \o ValueText(v) \o "\""))
            /\ (X \in BooleanCriteria /\ v.t = "bool") =>
                   result = Return(PyStr(TokenOf[X]))

C16_Witness ==
    /\ OneCriterionDone
    /\ query_terms = <<Item("delivered_to", PyStr("ab"))>>
    /\ result = Return(PyStr("deliveredto:ab"))

\* the one criterion of the call is X with a tuple or list of n values
OneCriterionWithArgs(X, n) ==
    /\ OneCriterionDone
    /\ query_terms[1].key = X
    /\ IsTupleOrList(query_terms[1].val)
    /\ Len(query_terms[1].val.items) = n

(* C17: older_than=(n, unit) and newer_than=(n, unit) render as            *)
(* older_than: / newer_than: followed by n and the first character of      *)
(* the unit, nothing in between: day gives d, month m, year y, and         *)
(* newer_than=(1,'day') gives newer_than:1d.                               *)
C17_TimeWindowRendering ==
    \A X \in {"older_than", "newer_than"} :
        LET args == query_terms[1].val.items
        IN  (/\ OneCriterionWithArgs(X, 2)
             /\ args[1].t = "int"
             /\ args[2].t = "str"
             /\ args[2].s # "") =>
                /\ result = Return(PyStr(X \o ":" \o IntToStr(args[1].n)
                                           \o SubSeq(args[2].s, 1, 1)))
                /\ args = <<PyInt(1), PyStr("day")>> => result.val.s = X \o ":1d"
                /\ args = <<PyInt(12), PyStr("month")>> => result.val.s = X \o ":12m"
                /\ args = <<PyInt(2), PyStr("year")>> => result.val.s = X \o ":2y"

C17_Witness ==
    /\ OneCriterionDone
    /\ query_terms = <<Item("newer_than", PyTuple(<<PyInt(1), PyStr("day")>>))>>
    /\ result = Return(PyStr("newer_than:1d"))

\* two words and a whole-number distance
WordsAndDistance(args) == args[1].t = "str" /\ args[2].t = "str" /\ args[3].t = "int"

\* first word, AROUND, distance, second word, separated by single spaces
AroundText(args) ==
    args[1].s \o " AROUND " \o IntToStr(args[3].n) \o " " \o args[2].s

(* C18: near_words(a, b, n) renders as a AROUND n b with single spaces,    *)
(* wrapped in one pair of double quotes when the exact-order flag is set;  *)
(* near_words=('CS','homework',5) gives CS AROUND 5 homework.              *)
C18_NearWordsRendering ==
    LET args == query_terms[1].val.items
    IN  /\ (OneCriterionWithArgs("near_words", 3) /\ WordsAndDistance(args)) =>
               /\ result = Return(PyStr(AroundText(args)))
               /\ args = <<PyStr("CS"), PyStr("homework"), PyInt(5)>> =>
                      result = Return(PyStr("CS AROUND 5 homework"))
        /\ (OneCriterionWithArgs("near_words", 4) /\ WordsAndDistance(args)) =>
               result = Return(PyStr(IF args[4] = PyBool(TRUE)
                                     THEN "\"" \o AroundText(args) \o "\""
                                     ELSE AroundText(args)))

C18_Witness ==
    /\ OneCriterionDone
    /\ query_terms = <<Item("near_words",
                            PyTuple(<<PyStr("a"), PyStr("b"), PyInt(5), PyBool(TRUE)>>))>>
    /\ result = Return(PyStr("\"a AROUND 5 b\""))

\* the string begins or ends with a space
HasEdgeSpace(s) ==
    Len(s) > 0 /\ (SubSeq(s, 1, 1) = " " \/ SubSeq(s, Len(s), Len(s)) = " ")

RECURSIVE NoEdgeSpaceIn(_)
\* no string in the value begins or ends with a space
NoEdgeSpaceIn(v) ==
    CASE v.t = "str" -> ~HasEdgeSpace(v.s)
      [] IsTupleOrList(v) -> \A i \in 1..Len(v.items) : NoEdgeSpaceIn(v.items[i])
      [] OTHER -> TRUE

RECURSIVE NoEmptyStringIn(_)
\* no string in the value is empty
NoEmptyStringIn(v) ==
    CASE v.t = "str" -> v.s # ""
      [] IsTupleOrList(v) -> \A i \in 1..Len(v.items) : NoEmptyStringIn(v.items[i])
      [] OTHER -> TRUE

\* the criteria of one set carry no edge space, and near_words no empty word
TrimmedCriteria(d) ==
    \A i \in 1..Len(d) :
        /\ NoEdgeSpaceIn(d[i].val)
        /\ (IF IsExcluded(d[i].key) THEN StripExclude(d[i].key) ELSE d[i].key) = "near_words"
               => NoEmptyStringIn(d[i].val)

TrimmedInput ==
    /\ TrimmedCriteria(query_terms)
    /\ \A i \in 1..Len(query_dicts) : TrimmedCriteria(query_dicts[i])

ReturnedString == pc = "done" /\ result.ok /\ result.val.t = "str"

ReturnsAsAlone(t) ==
    calls[t].pc = "done" => calls[t].result = construct_query(<<>>, calls[t].query_terms)

(* C22: build_query may be called from several threads at once: under      *)
(* every interleaving each call returns exactly what it returns when run   *)
(* alone, and no step of a call writes state another call reads.           *)
C22_ThreadsDoNotInterfere ==
    /\ [](\A t \in Threads : ReturnsAsAlone(t))
    /\ [][/\ module_globals' = module_globals
          /\ \A t, u \in Threads :
                 (calls'[t] # calls[t] /\ u # t) => calls'[u] = calls[u]]_vars

C22_Witness ==
    /\ pc = "threads"
    /\ calls[1].pc = "done"
    /\ calls[2].pc = "done"
    /\ calls[1].result = Raise("KeyError", "_foo")
    /\ calls[2].result = Return(PyStr("(from:a -is:starred)"))

(* C23 as stated: _or at the top of the two nested AND-groups               *)
(* _and([_and([a,b,c]), _and([d,e,f])]) and _and([_and([g,h,i]), j])        *)
(* renders exactly {{{a b c} {d e f}} {{g h i} j}}.                         *)
C23_MixedNestingRendersBraces ==
    (pc = "combined" /\ expr = MixedExpr) =>
        result = Return(PyStr("{{{a b c} {d e f}} {{g h i} j}}"))

(* C23 amended: _or at the top of the two nested AND-groups renders         *)
(* exactly {((a b c) (d e f)) ((g h i) j)}: braces for the OR at the top,   *)
(* parentheses for every AND-group inside.                                  *)
C23_MixedNestingKeepsDelimiters ==
    (pc = "combined" /\ expr = MixedExpr) =>
        result = Return(PyStr("{((a b c) (d e f)) ((g h i) j)}"))

C23_Witness ==
    /\ pc = "combined"
    /\ expr = MixedExpr
    /\ result = Return(PyStr("{((a b c) (d e f)) ((g h i) j)}"))

\* the name begins with exactly exclude_
HasExcludePrefix(key) ==
    Len(key) >= Len("exclude_") /\ SubSeq(key, 1, Len("exclude_")) = "exclude_"

\* the name begins with exclude, not with exclude_
HasInexactPrefix(key) ==
    /\ Len(key) >= Len("exclude")
    /\ SubSeq(key, 1, Len("exclude")) = "exclude"
    /\ ~HasExcludePrefix(key)

RejectedAsUnknown == ~result.ok /\ result.err = "KeyError"

(* C26: a criterion name is negated only when it begins with exactly       *)
(* exclude_, and then that prefix is removed to find the positive          *)
(* criterion; a name beginning with exclude but not exclude_ (such as      *)
(* excludeXsender or exclude) is never rendered as a negated criterion     *)
(* but rejected as unknown.                                                *)
C26_OnlyExactPrefixNegates ==
    OneCriterionDone =>
        LET key == query_terms[1].key
            val == query_terms[1].val
        IN  /\ (HasExcludePrefix(key) /\ Alone(StripExclude(key), val).ok) =>
                   result = Return(PyStr("-" \o Alone(StripExclude(key), val).val.s))
            /\ HasInexactPrefix(key) => RejectedAsUnknown

\* helpers of the module that are no criteria
HelperNames == {"and", "or", "exclude", "label"}

(* C27: the names build_query accepts are the documented criteria and      *)
(* their exclude_ forms; the helper names and, or, exclude and label       *)
(* given in a criterion set are rejected as unknown and never produce a    *)
(* query string.                                                           *)
C27_HelperNamesRejected ==
    (OneCriterionDone /\ query_terms[1].key \in HelperNames) => RejectedAsUnknown

RECURSIVE Scan(_, _, _)
\* reads s from position i with the groups open so far, innermost last, each
\* with the spaces seen directly inside it: every closing delimiter matches
\* the innermost open one, whose group holds at least two terms, and no
\* group is left open
Scan(s, i, open) ==
    IF i > Len(s) THEN open = <<>>
    ELSE LET c == SubSeq(s, i, i)
             n == Len(open)
         IN  CASE c \in {"(", "{"} ->
                      Scan(s, i + 1, Append(open, [delim |-> c, spaces |-> 0]))
               [] c \in {")", "}"} ->
                      /\ n > 0
                      /\ open[n].delim = (IF c = ")" THEN "(" ELSE "{")
                      /\ open[n].spaces >= 1
                      /\ Scan(s, i + 1, SubSeq(open, 1, n - 1))
               [] c = " " /\ n > 0 ->
                      Scan(s, i + 1, [open EXCEPT ![n].spaces = @ + 1])
               [] OTHER -> Scan(s, i + 1, open)

WellGrouped(s) == Scan(s, 1, <<>>)

(* C28: in every string build_query returns the delimiters ( ) and { }     *)
(* are balanced and properly nested and every group encloses at least      *)
(* two space-separated terms; no empty group () or {} is emitted, also     *)
(* for empty input or an empty list or tuple value.                        *)
C28_GroupsBalancedAndNonEmpty ==
    ReturnedString => WellGrouped(result.val.s)

\* the call of _get_messages_from_refs is over and some fetch failed
FetchFailedDone ==
    /\ main = "returned"
    /\ \E i \in 1..Len(message_refs) : message_refs[i] \in failing

(* C25: if fetching any one message fails with HttpError while the         *)
(* batches are downloaded in worker threads, the call raises that          *)
(* HttpError to its caller after the threads finish; it neither returns    *)
(* a partial list nor fails with a different error.                        *)
C25_HttpErrorReachesCaller ==
    FetchFailedDone => outcome = Raised("HttpError")

\* the threads whose batch holds index i
ThreadsFetching(i) ==
    {t \in ThreadNums :
        i \in Range(BatchStart(t, Len(message_refs)), BatchEnd(t, Len(message_refs)))}

\* every index 0..n-1 lies in the batch of exactly one thread
BatchesPartition ==
    \A i \in 0..(Len(message_refs) - 1) : Cardinality(ThreadsFetching(i)) = 1

\* all fetches succeeded: one fetch per reference, n messages in the order
\* of the references
AllFetchedInOrder ==
    /\ \A i \in DOMAIN fetched : fetched[i] = 1
    /\ outcome.kind = "return"
    /\ Len(outcome.messages) = Len(message_refs)
    /\ \A i \in 1..Len(message_refs) : outcome.messages[i].msg_id = message_refs[i]

(* C29: for every non-empty list of n references the batches               *)
(* [i*batch_size, min(n, (i+1)*batch_size)) of the num_threads =           *)
(* min(ceil(n/10), 12) workers partition the indices 0..n-1: no reference  *)
(* is fetched twice, each thread writes only its own slot, and when all    *)
(* fetches succeed the returned list has the n messages in the order of    *)
(* the references, under every interleaving of the threads.                *)
C29_BatchesPartitionReferences ==
    /\ [](/\ (main = "call" /\ message_refs # <<>>) => BatchesPartition
          /\ \A i \in DOMAIN fetched : fetched[i] <= 1
          /\ (main = "returned" /\ message_refs # <<>> /\ failing = {})
                 => AllFetchedInOrder)
    /\ [][\A t \in DOMAIN threads :
             (threads[t] = "running" /\ threads'[t] # "running") =>
                 \A u \in DOMAIN threads \ {t} : message_lists'[u] = message_lists[u]]_vars

C29_Witness ==
    /\ main = "returned"
    /\ Len(message_refs) = 121
    /\ DOMAIN threads = 0..11
    /\ failing = {}
    /\ outcome.kind = "return"
    /\ Len(outcome.messages) = 121

\* what an Attachment of a message fetched in the given mode may hold
DataAllowed(mode) ==
    CASE mode = "ignore" -> {}
      [] mode = "reference" -> {"None"}
      [] mode = "download" -> {"bytes"}

(* C24: the attachments mode the caller passes to Gmail.get_messages or    *)
(* to a wrapper is the mode each fetched message's payload is evaluated    *)
(* with: with 'ignore' every returned Message has no attachments, with     *)
(* 'reference' attachments carry no data, with 'download' every            *)
(* attachment carries its data.                                            *)
C24_AttachmentsModeHonoured ==
    (main = "returned" /\ outcome.kind = "return" /\ request.method # "") =>
        \A i \in 1..Len(outcome.messages) :
            \A j \in 1..Len(outcome.messages[i].attachments) :
                outcome.messages[i].attachments[j] \in DataAllowed(request.attachments)

(* C30: the wrappers leave the caller's labels list unchanged, so each     *)
(* call of a sequence reusing the list sends exactly the caller's labels   *)
(* plus that wrapper's own system label: once a wrapper was called with    *)
(* a list, the list is as it was given and the request carried its         *)
(* labels followed by the wrapper's.                                       *)
C30_WrappersLeaveLabelsUnchanged ==
    (request.method \in Wrappers /\ ~request.labels.none) =>
        /\ caller_labels = request.labels
        /\ sent = request.labels.items \o LabelsAppended(request.method)

====
